---- MODULE Spec2Model ----
(***************************************************************************)
(* Model of content_brief_app.py: a Streamlit script that fetches a page,  *)
(* extracts a content brief from the parsed document and chains three     *)
(* generation calls (article, summary + image prompt, image).              *)
(*                                                                         *)
(* Python values are tagged records (field py) so that None, strings,     *)
(* dicts and raised exceptions can be told apart.  A Python string is a    *)
(* sequence of one-character strings.                                      *)
(*                                                                         *)
(* A parsed document is the sequence of its elements in document order    *)
(* (preorder).  Each element has a tag, the index of its parent (0 is the  *)
(* BeautifulSoup object itself), its own text (the text directly inside   *)
(* the element, in front of its child elements) and its attributes (a set *)
(* of <<name, value>> pairs).  Element references are indices; NoneRef is  *)
(* Python's None.                                                          *)
(***************************************************************************)
EXTENDS Integers, Sequences, FiniteSets, TLC

VARIABLES pc, url_input, clicked, button_shown, response, soup,
          content_brief, generated_content, summary_and_prompt,
          generated_image_url, errors, shown, log, page_seen

vars == <<pc, url_input, clicked, button_shown, response, soup,
          content_brief, generated_content, summary_and_prompt,
          generated_image_url, errors, shown, log, page_seen>>

(***************************************************************************)
(* Bounds                                                                  *)
(***************************************************************************)
\* number of elements of the documents given to analyze_page_structure
MaxNodes == 3
\* number of elements of the pages the web server of the application serves
MaxPageNodes == 2

(***************************************************************************)
(* Python values                                                           *)
(***************************************************************************)
None == [py |-> "None"]
PyStr(s) == [py |-> "str", s |-> s]
PyDict(d) == [py |-> "dict", d |-> d]
PyList(l) == [py |-> "list", l |-> l]
PySoup(d) == [py |-> "soup", doc |-> d]
Raised(e) == [py |-> "raise", exc |-> e]

\* variant of Truthy: the test `x is not None` in the place of `if x:`
Truthy_not_none(v) == v.py # "None"

\* truth value of a Python object in `if x:`; a Tag or BeautifulSoup object
\* is always true, a string is true when it is not empty
Truthy(v) ==
    CASE v.py = "None" -> FALSE
      [] v.py = "str" -> v.s # <<>>
      [] OTHER -> TRUE

NoneRef == -1
SoupRef == 0

(***************************************************************************)
(* Strings                                                                 *)
(***************************************************************************)
Whitespace == {" ", "\n", "\t"}

RECURSIVE LStrip(_)
LStrip(s) ==
    IF s # <<>> /\ Head(s) \in Whitespace THEN LStrip(Tail(s)) ELSE s

RECURSIVE RStrip(_)
RStrip(s) ==
    IF s # <<>> /\ s[Len(s)] \in Whitespace
    THEN RStrip(SubSeq(s, 1, Len(s) - 1))
    ELSE s

\* str.strip()
Strip(s) == RStrip(LStrip(s))

(***************************************************************************)
(* The parsed document                                                     *)
(***************************************************************************)
\* elements html.parser closes at once: they never get children or text
VoidTags == {"img"}

Node(k, p) == [tag |-> k.tag, parent |-> p, text |-> k.text, attrs |-> k.attrs]

\* a is a proper ancestor of element j (the BeautifulSoup object is an
\* ancestor of every element)
RECURSIVE IsAncestor(_, _, _)
IsAncestor(d, a, j) ==
    \/ a = SoupRef
    \/ d[j].parent = a
    \/ d[j].parent # SoupRef /\ IsAncestor(d, a, d[j].parent)

\* the elements that are still open after the parser has read d: the last
\* element and its ancestors, without the void ones
OpenElements(d) ==
    {SoupRef} \cup
    {a \in DOMAIN d :
        /\ a = Len(d) \/ IsAncestor(d, a, Len(d))
        /\ d[a].tag \notin VoidTags}

\* the documents of exactly n elements built from the element kinds K
RECURSIVE DocsOfLen(_, _)
DocsOfLen(K, n) ==
    IF n = 0 THEN {<<>>}
    ELSE UNION { {Append(d, Node(k, p)) : k \in K, p \in OpenElements(d)} :
                 d \in DocsOfLen(K, n - 1) }

Docs(K, n) == UNION {DocsOfLen(K, m) : m \in 0..n}

(***************************************************************************)
(* BeautifulSoup queries                                                   *)
(***************************************************************************)
\* Tag.find_all(tag): the descendants of r with that tag, in document order
RECURSIVE find_all_from(_, _, _, _)
find_all_from(d, r, tag, j) ==
    IF j > Len(d) THEN <<>>
    ELSE (IF d[j].tag = tag /\ IsAncestor(d, r, j) THEN <<j>> ELSE <<>>)
         \o find_all_from(d, r, tag, j + 1)

find_all(d, r, tag) == find_all_from(d, r, tag, 1)

\* Tag.find(tag): the first match of find_all, or None
find(d, r, tag) ==
    LET m == find_all(d, r, tag) IN IF m = <<>> THEN NoneRef ELSE m[1]

\* Tag.get_text(strip=True): the strings of the element and of its
\* descendants in document order, each stripped, joined without separator
RECURSIVE get_text_from(_, _, _)
get_text_from(d, i, j) ==
    IF j > Len(d) THEN <<>>
    ELSE (IF j = i \/ IsAncestor(d, i, j) THEN Strip(d[j].text) ELSE <<>>)
         \o get_text_from(d, i, j + 1)

get_text(d, i) == get_text_from(d, i, i)

\* el.attrs.get(attr, "")
attrs_get(el, attr) ==
    IF \E p \in el.attrs : p[1] = attr
    THEN (CHOOSE p \in el.attrs : p[1] = attr)[2]
    ELSE <<>>

(***************************************************************************)
(* extract_content and analyze_page_structure                              *)
(***************************************************************************)
\* variant of extract_content: elements without text are left out
extract_content_skip_empty(d, r, tag, attr) ==
    IF r = NoneRef THEN Raised("AttributeError")
    ELSE LET elements ==
                 SelectSeq(find_all(d, r, tag), LAMBDA i : get_text(d, i) # <<>>)
         IN
         IF attr # ""
         THEN PyList([i \in DOMAIN elements |->
                  PyDict((attr :> attrs_get(d[elements[i]], attr))
                         @@ ("text" :> get_text(d, elements[i])))])
         ELSE PyList([i \in DOMAIN elements |->
                  PyStr(get_text(d, elements[i]))])

\* extract_content(soup, tag, attr): attr = "" stands for attr=None
extract_content(d, r, tag, attr) ==
    IF r = NoneRef THEN Raised("AttributeError")
    ELSE LET elements == find_all(d, r, tag) IN
         IF attr # ""
         THEN PyList([i \in DOMAIN elements |->
                  PyDict((attr :> attrs_get(d[elements[i]], attr))
                         @@ ("text" :> get_text(d, elements[i])))])
         ELSE PyList([i \in DOMAIN elements |->
                  PyStr(get_text(d, elements[i]))])

HeadingTags == <<"h1", "h2", "h3", "h4", "h5", "h6">>

\* the loop over h1..h6 that extends content_brief["headlines"]
RECURSIVE headlines_loop(_, _, _)
headlines_loop(d, r, k) ==
    IF k > Len(HeadingTags) THEN <<>>
    ELSE extract_content(d, r, HeadingTags[k], "").l
         \o headlines_loop(d, r, k + 1)

\* variant of content_section: <main> is tried before <article>
content_section_main_first(d) ==
    IF find(d, SoupRef, "main") # NoneRef THEN find(d, SoupRef, "main")
    ELSE IF find(d, SoupRef, "article") # NoneRef
    THEN find(d, SoupRef, "article")
    ELSE find(d, SoupRef, "body")

\* the scope root: <article>, else <main>, else <body> (None when absent)
content_section(d) ==
    IF find(d, SoupRef, "article") # NoneRef THEN find(d, SoupRef, "article")
    ELSE IF find(d, SoupRef, "main") # NoneRef THEN find(d, SoupRef, "main")
    ELSE find(d, SoupRef, "body")

analyze_page_structure(d) ==
    LET cs == content_section(d) IN
    IF extract_content(d, cs, "p", "").py = "raise"
    THEN extract_content(d, cs, "p", "")
    ELSE PyDict([headlines |-> PyList(headlines_loop(d, cs, 1)),
                 body_texts |-> extract_content(d, cs, "p", ""),
                 ctas |-> PyList(extract_content(d, cs, "a", "href").l
                                 \o extract_content(d, cs, "button", "").l),
                 images |-> extract_content(d, cs, "img", "src"),
                 videos |-> extract_content(d, cs, "video", "src")])

(***************************************************************************)
(* The documents the extraction is applied to                              *)
(***************************************************************************)
Kind(t, x, a) == [tag |-> t, text |-> x, attrs |-> a]

\* the element kinds of the documents: the three scope tags, a paragraph,
\* two heading levels, a link with and without href, a button with and
\* without text, an image
\* with only src and an image with all its attributes
ElementKinds ==
    { Kind("body", <<>>, {}),
      Kind("article", <<>>, {}),
      Kind("main", <<>>, {}),
      Kind("p", <<"x">>, {}),
      Kind("h1", <<"x">>, {}),
      Kind("h2", <<" ", "y", " ">>, {}),
      Kind("a", <<" ", "y">>, {<<"href", <<"/", "g">>>>}),
      Kind("a", <<>>, {}),
      Kind("button", <<"x">>, {}),
      Kind("button", <<>>, {}),
      Kind("img", <<>>, {<<"src", <<"i">>>>}),
      Kind("img", <<>>, {<<"src", <<"i">>>>, <<"alt", <<"t">>>>,
                         <<"width", <<"9">>>>, <<"height", <<"9">>>>}) }

\* the element kinds of the pages served to the application
PageKinds == { Kind("body", <<>>, {}), Kind("p", <<"x">>, {}) }

Pages == Docs(PageKinds, MaxPageNodes)

(***************************************************************************)
(* The extraction on its own: analyze_page_structure applied to a document *)
(***************************************************************************)
EmptyUrl == [scheme |-> "", host |-> ""]

ScriptIdle ==
    /\ url_input = EmptyUrl
    /\ clicked = FALSE
    /\ button_shown = FALSE
    /\ response = None
    /\ content_brief = None
    /\ generated_content = None
    /\ summary_and_prompt = None
    /\ generated_image_url = None
    /\ errors = <<>>
    /\ shown = <<>>
    /\ log = <<>>
    /\ page_seen = None

ExtractInit ==
    /\ ScriptIdle
    /\ pc = "analyze_call"
    /\ soup = PySoup(<<>>)

\* BeautifulSoup(page_content, "html.parser") reads one more element of
\* the page, as a child of one of the elements that are still open
ParseElement ==
    /\ pc = "analyze_call"
    /\ Len(soup.doc) < MaxNodes
    /\ \E k \in ElementKinds, p \in OpenElements(soup.doc) :
           soup' = PySoup(Append(soup.doc, Node(k, p)))
    /\ UNCHANGED <<pc, url_input, clicked, button_shown, response,
                   content_brief, generated_content, summary_and_prompt,
                   generated_image_url, errors, shown, log, page_seen>>

\* analyze_page_structure(soup) returns a content brief
AnalyzeReturn ==
    /\ pc = "analyze_call"
    /\ analyze_page_structure(soup.doc).py # "raise"
    /\ content_brief' = analyze_page_structure(soup.doc)
    /\ pc' = "analyze_returned"
    /\ UNCHANGED <<url_input, clicked, button_shown, response, soup,
                   generated_content, summary_and_prompt,
                   generated_image_url, errors, shown, log, page_seen>>

\* analyze_page_structure(soup) raises
AnalyzeRaise ==
    /\ pc = "analyze_call"
    /\ analyze_page_structure(soup.doc).py = "raise"
    /\ content_brief' = analyze_page_structure(soup.doc)
    /\ pc' = "analyze_raised"
    /\ UNCHANGED <<url_input, clicked, button_shown, response, soup,
                   generated_content, summary_and_prompt,
                   generated_image_url, errors, shown, log, page_seen>>

ExtractNext == ParseElement \/ AnalyzeReturn \/ AnalyzeRaise

ExtractSpec == ExtractInit /\ [][ExtractNext]_vars

(***************************************************************************)
(* The application: the Streamlit script                                   *)
(*                                                                         *)
(* Streamlit runs the script from its first line to its last one on every  *)
(* interaction of the user with a widget.  st.text_input returns the      *)
(* current text of the field; st.button returns True only in the run that *)
(* the click on that button started.  The variables of the script do not  *)
(* survive a run: every run starts with none of them set.                  *)
(***************************************************************************)
\* what the user may type into the URL field
UrlInputs ==
    { EmptyUrl,
      [scheme |-> "https", host |-> "example.com"],
      [scheme |-> "ftp", host |-> "example.com"],
      [scheme |-> "", host |-> "example.com"] }

\* UserInput(url=url_input): pydantic's HttpUrl validation
IsHttpUrl(u) == u.scheme \in {"http", "https"} /\ u.host # ""

\* final status codes of a response
Statuses == {200, 204, 300, 404, 500}

\* what requests.get may end in: a transport fault, or a response
FetchOutcomes ==
    {[kind |-> "transport"]} \cup
    {[kind |-> "http", status |-> st, content |-> d] :
        st \in Statuses, d \in Pages}

\* Response.raise_for_status(): HTTPError for 4xx and 5xx
raise_for_status(status) == 400 <= status /\ status < 600

\* fetch_and_parse_url(url) for the outcome o of requests.get
fetch_and_parse_url(o) ==
    IF o.kind = "transport" \/ raise_for_status(o.status)
    THEN [ret |-> None, err |-> <<"Error fetching the URL">>]
    ELSE [ret |-> PySoup(o.content), err |-> <<>>]

\* what a chat completion call may end in: an exception, or a first choice
\* whose content is None, empty or a text
Completions ==
    {Raised("APIError"), None, PyStr(<<>>), PyStr(<<"T">>)}

\* what the image call may end in
ImageResults ==
    {Raised("APIError"), None, PyStr(<<>>), PyStr(<<"U">>)}

\* the try/except of generate_content, generate_summary_and_prompt and
\* generate_image: the result, or None and an error message
call_guarded(o, msg) ==
    IF o.py = "raise"
    THEN [ret |-> None, err |-> <<msg>>]
    ELSE [ret |-> o, err |-> <<>>]

\* variant of generate_content: the except branch returns the message
generate_content_returns_message(o) ==
    IF o.py = "raise"
    THEN [ret |-> PyStr(<<"E">>), err |-> <<"Error generating content">>]
    ELSE [ret |-> o, err |-> <<>>]

generate_content(o) == call_guarded(o, "Error generating content")

generate_summary_and_prompt(o) ==
    call_guarded(o, "Error generating summary and DALL-E prompt")

generate_image(o) == call_guarded(o, "Error generating image")

Event(name, out) == [ev |-> name, out |-> out]

Outcome(o) == IF o.py = "raise" THEN "fault" ELSE "returned"

Widget(w, v) == [widget |-> w, value |-> v]

ButtonPrompt == Widget("write", PyStr(<<"k">>))

\* st.subheader("Generated Content"); st.write(generated_content)
ShowContent(gc) ==
    <<Widget("subheader", PyStr(<<"C">>)), Widget("write", gc)>>

\* st.subheader("Generated Image"); st.image(generated_image_url)
ShowImage(url) ==
    IF Truthy(url)
    THEN <<Widget("subheader", PyStr(<<"I">>)), Widget("image", url)>>
    ELSE <<>>

\* variant of ShownAfterSummary: the display of the article is nested in
\* the `if summary_and_prompt:` block
ShownAfterSummary_nested(sp, gc) == <<>>

\* what the run shows when the summary call has returned sp: with a summary
\* the image call comes first; without one the article is shown at once
ShownAfterSummary(sp, gc) == IF Truthy(sp) THEN <<>> ELSE ShowContent(gc)

Init ==
    /\ ScriptIdle
    /\ pc = "idle"
    /\ soup = None

\* a new run of the script starts: nothing of the last run is left but the
\* widget state
StartRun(trigger) ==
    /\ pc' = "script"
    /\ button_shown' = FALSE
    /\ response' = None
    /\ soup' = None
    /\ content_brief' = None
    /\ generated_content' = None
    /\ summary_and_prompt' = None
    /\ generated_image_url' = None
    /\ errors' = <<>>
    /\ shown' = <<>>
    /\ log' = <<Event(trigger, "user")>>

\* the user changes the text of the URL field
UserEntersUrl ==
    /\ pc = "idle"
    /\ \E u \in UrlInputs : u # url_input /\ url_input' = u
    /\ clicked' = FALSE
    /\ page_seen' = None
    /\ StartRun("url")

\* the user clicks 'Generate Content', which the last run has rendered
\* after it fetched the document page_seen
UserClicksGenerate ==
    /\ pc = "idle"
    /\ button_shown
    /\ clicked' = TRUE
    /\ page_seen' = soup
    /\ UNCHANGED url_input
    /\ StartRun("click")

\* if url_input: ... UserInput(url=url_input) ... except ValidationError
ValidateUrl ==
    /\ pc = "script"
    /\ IF url_input = EmptyUrl
       THEN pc' = "idle" /\ UNCHANGED errors
       ELSE IF ~IsHttpUrl(url_input)
       THEN pc' = "idle" /\ errors' = Append(errors, "Invalid URL")
       ELSE pc' = "fetch" /\ UNCHANGED errors
    /\ UNCHANGED <<url_input, clicked, button_shown, response, soup,
                   content_brief, generated_content, summary_and_prompt,
                   generated_image_url, shown, log, page_seen>>

\* soup = fetch_and_parse_url(url); if soup: st.write(...);
\* if st.button("Generate Content"):
FetchPage ==
    /\ pc = "fetch"
    /\ \E o \in FetchOutcomes :
        LET r == fetch_and_parse_url(o) IN
        /\ response' = o
        /\ log' = Append(log, Event("requests.get",
                                    IF o.kind = "transport" THEN "fault"
                                    ELSE "returned"))
        /\ soup' = r.ret
        /\ errors' = errors \o r.err
        /\ IF Truthy(r.ret)
           THEN /\ shown' = Append(shown, ButtonPrompt)
                /\ button_shown' = TRUE
                /\ pc' = IF clicked THEN "analyze" ELSE "idle"
           ELSE /\ UNCHANGED <<shown, button_shown>>
                /\ pc' = "idle"
    /\ UNCHANGED <<url_input, clicked, content_brief, generated_content,
                   summary_and_prompt, generated_image_url, page_seen>>

\* content_brief = analyze_page_structure(soup); an exception it raises is
\* not caught by the script and ends the run
ExtractBrief ==
    /\ pc = "analyze"
    /\ log' = Append(log, Event("analyze_page_structure",
                                Outcome(analyze_page_structure(soup.doc))))
    /\ IF analyze_page_structure(soup.doc).py = "raise"
       THEN /\ errors' = Append(errors, analyze_page_structure(soup.doc).exc)
            /\ pc' = "idle"
            /\ UNCHANGED content_brief
       ELSE /\ content_brief' = analyze_page_structure(soup.doc)
            /\ pc' = "generate_content"
            /\ UNCHANGED errors
    /\ UNCHANGED <<url_input, clicked, button_shown, response, soup,
                   generated_content, summary_and_prompt,
                   generated_image_url, shown, page_seen>>

\* generated_content = generate_content(prompts, openai_api_key)
\* if generated_content:
GenerateContent ==
    /\ pc = "generate_content"
    /\ \E o \in Completions :
        LET r == generate_content(o) IN
        /\ log' = Append(log, Event("generate_content", Outcome(o)))
        /\ generated_content' = r.ret
        /\ errors' = errors \o r.err
        /\ pc' = IF Truthy(r.ret) THEN "generate_summary" ELSE "idle"
    /\ UNCHANGED <<url_input, clicked, button_shown, response, soup,
                   content_brief, summary_and_prompt, generated_image_url,
                   shown, page_seen>>

\* summary_and_prompt = generate_summary_and_prompt(...)
\* if summary_and_prompt: ... else the article is shown and the run ends
GenerateSummary ==
    /\ pc = "generate_summary"
    /\ \E o \in Completions :
        LET r == generate_summary_and_prompt(o) IN
        /\ log' = Append(log, Event("generate_summary_and_prompt",
                                    Outcome(o)))
        /\ summary_and_prompt' = r.ret
        /\ errors' = errors \o r.err
        /\ shown' = shown \o ShownAfterSummary(r.ret, generated_content)
        /\ pc' = IF Truthy(r.ret) THEN "generate_image" ELSE "idle"
    /\ UNCHANGED <<url_input, clicked, button_shown, response, soup,
                   content_brief, generated_content, generated_image_url,
                   page_seen>>

\* generated_image_url = generate_image(...); if generated_image_url: the
\* image is shown; then the article is shown and the run ends
GenerateImage ==
    /\ pc = "generate_image"
    /\ \E o \in ImageResults :
        LET r == generate_image(o) IN
        /\ log' = Append(log, Event("generate_image", Outcome(o)))
        /\ generated_image_url' = r.ret
        /\ errors' = errors \o r.err
        /\ shown' = shown \o ShowImage(r.ret) \o ShowContent(generated_content)
        /\ pc' = "idle"
    /\ UNCHANGED <<url_input, clicked, button_shown, response, soup,
                   content_brief, generated_content, summary_and_prompt,
                   page_seen>>

Next ==
    \/ UserEntersUrl
    \/ UserClicksGenerate
    \/ ValidateUrl
    \/ FetchPage
    \/ ExtractBrief
    \/ GenerateContent
    \/ GenerateSummary
    \/ GenerateImage

Spec == Init /\ [][Next]_vars

\* a run of the script goes on until its end: the validation and the
\* extraction are local computations, and each generation call returns or
\* raises within the time-out of the OpenAI client
FairSpec ==
    /\ Spec
    /\ WF_vars(ValidateUrl)
    /\ WF_vars(ExtractBrief)
    /\ WF_vars(GenerateContent)
    /\ WF_vars(GenerateSummary)
    /\ WF_vars(GenerateImage)

(***************************************************************************)
(* Properties of the application                                           *)
(***************************************************************************)
GenerationCalls ==
    {"generate_content", "generate_summary_and_prompt", "generate_image"}

Called(name) == \E i \in DOMAIN log : log[i].ev = name

NonEmptyText(v) == v.py = "str" /\ v.s # <<>>

ArticleShown ==
    \E i \in DOMAIN shown : shown[i] = Widget("write", generated_content)

ImageShown == \E i \in DOMAIN shown : shown[i].widget = "image"

\* C1: in a run of the script no generation call is invoked after a
\* generation call that has faulted; in particular, when generate_content
\* faults, neither generate_summary_and_prompt nor generate_image is called.
C1_NoCallAfterFailure ==
    \A i, j \in DOMAIN log :
        (i < j /\ log[i].ev \in GenerationCalls /\ log[i].out = "fault")
            => log[j].ev \notin GenerationCalls

\* the article call has faulted and the run has ended
C1_Witness ==
    /\ pc = "idle"
    /\ log # <<>>
    /\ log[Len(log)] = Event("generate_content", "fault")

\* C2: a fetch that ends in a status outside 200..299 or in a transport
\* fault reports a fetch error and yields no document, and the run calls
\* neither analyze_page_structure nor a generation call.
C2_NonSuccessStopsAction ==
    (response # None /\ (response.kind = "transport"
                         \/ response.status \notin 200..299))
        => /\ soup = None
           /\ \E i \in DOMAIN errors : errors[i] = "Error fetching the URL"
           /\ ~Called("analyze_page_structure")
           /\ \A c \in GenerationCalls : ~Called(c)

\* C7: once the article call has returned a non-empty article, the article
\* is eventually shown, whatever the summary call and the image call end in.
C7_ArticleEventuallyShown ==
    (pc = "generate_summary" /\ NonEmptyText(generated_content))
        ~> (pc = "idle" /\ ArticleShown)

\* the article is shown at the end of a run whose summary call faulted, and
\* of a run whose image call faulted
C7_Witness ==
    /\ pc = "idle"
    /\ NonEmptyText(generated_content)
    /\ ArticleShown
    /\ ~ImageShown
    /\ log[Len(log)].out = "fault"

\* C9: a run started by the click on 'Generate Content' issues no HTTP GET,
\* and what it extracts from is the document fetched before the click.
C9_SingleFetchPerAction ==
    (log # <<>> /\ log[1].ev = "click")
        => /\ ~Called("requests.get")
           /\ Called("analyze_page_structure") => soup = page_seen

\* C10: the summary call is made only when the article call returned a
\* non-empty text and the image call only when the summary call returned a
\* non-empty text; a call that returns None or an empty text without
\* raising ends the chain (after an empty article nothing is shown), and no
\* error message is emitted for it.
C10_ChainNeedsNonEmptyResult ==
    /\ Called("generate_summary_and_prompt") => NonEmptyText(generated_content)
    /\ Called("generate_image") => NonEmptyText(summary_and_prompt)
    /\ \A i \in DOMAIN log :
          (log[i] = Event("generate_content", "returned")
           /\ ~NonEmptyText(generated_content))
              => /\ i = Len(log)
                 /\ pc = "idle"
                 /\ ~ArticleShown /\ ~ImageShown
                 /\ errors = <<>>
    /\ \A i \in DOMAIN log :
          (log[i] = Event("generate_summary_and_prompt", "returned")
           /\ ~NonEmptyText(summary_and_prompt))
              => /\ i = Len(log)
                 /\ pc = "idle"
                 /\ errors = <<>>

\* the article call returned an empty text without raising
C10_Witness ==
    /\ pc = "idle"
    /\ log # <<>>
    /\ log[Len(log)] = Event("generate_content", "returned")
    /\ generated_content = PyStr(<<>>)

(***************************************************************************)
(* Properties of the extraction                                            *)
(***************************************************************************)
HasTag(d, t) == \E j \in DOMAIN d : d[j].tag = t

IsFirstWithTag(d, r, t) ==
    d[r].tag = t /\ \A j \in DOMAIN d : d[j].tag = t => r <= j

\* r is the scope root the priority article, main, body selects
IsScopeRoot(d, r) ==
    \/ IsFirstWithTag(d, r, "article")
    \/ IsFirstWithTag(d, r, "main") /\ ~HasTag(d, "article")
    \/ IsFirstWithTag(d, r, "body") /\ ~HasTag(d, "article")
                                     /\ ~HasTag(d, "main")

\* in document order the subtree of r is the block of elements after r
\* whose parents are not in front of r
InSubtree(d, r, j) == j > r /\ \A k \in (r + 1)..j : d[k].parent >= r

\* the elements of the subtree of r with a tag of T
Sources(d, r, T) == {j \in DOMAIN d : InSubtree(d, r, j) /\ d[j].tag \in T}

\* the i-th element of the set S of elements, in document order
NthOf(S, i) == CHOOSE j \in S : Cardinality({k \in S : k <= j}) = i

CategoryTags ==
    [headlines |-> {"h1", "h2", "h3", "h4", "h5", "h6"},
     body_texts |-> {"p"},
     ctas |-> {"a", "button"},
     images |-> {"img"},
     videos |-> {"video"}]

TextOfEntry(e) == IF e.py = "str" THEN e.s ELSE e.d["text"]

\* the entries are, up to their order, the texts of the elements of S
SameTexts(d, entries, S) ==
    \A x \in {TextOfEntry(entries[i]) : i \in DOMAIN entries}
             \cup {get_text(d, j) : j \in S} :
        Cardinality({i \in DOMAIN entries : TextOfEntry(entries[i]) = x})
            = Cardinality({j \in S : get_text(d, j) = x})

\* C3: the scope root is the first <article>, else the first <main>, else
\* <body>, and every sequence of the content brief has one entry for each
\* matching element of the subtree of that scope root, and no other entry.
C3_ScopedToPriorityRoot ==
    pc = "analyze_returned" =>
        \E r \in DOMAIN soup.doc :
            /\ IsScopeRoot(soup.doc, r)
            /\ \A cat \in DOMAIN CategoryTags :
                   SameTexts(soup.doc, content_brief.d[cat].l,
                             Sources(soup.doc, r, CategoryTags[cat]))

\* an <article> is the scope root although a <main> or a <body> is there,
\* and an element outside of the <article> matches a category but has no
\* entry in the content brief
C3_Witness ==
    /\ pc = "analyze_returned"
    /\ \E r, j \in DOMAIN soup.doc :
        /\ IsScopeRoot(soup.doc, r)
        /\ soup.doc[r].tag = "article"
        /\ HasTag(soup.doc, "main") \/ HasTag(soup.doc, "body")
        /\ ~InSubtree(soup.doc, r, j)
        /\ soup.doc[j].tag \in {"p", "a"}
        /\ content_brief.d.body_texts.l = <<>>
        /\ content_brief.d.ctas.l = <<>>

\* C4: the headlines are the headings h1..h6 of the scope root in document
\* order, whatever their levels.
C4_HeadlinesInDocumentOrder ==
    pc = "analyze_returned" =>
        \E r \in DOMAIN soup.doc :
            /\ IsScopeRoot(soup.doc, r)
            /\ LET H == Sources(soup.doc, r, CategoryTags.headlines) IN
               content_brief.d.headlines.l =
                   [i \in 1..Cardinality(H) |->
                       PyStr(get_text(soup.doc, NthOf(H, i)))]

Auto == <<"a", "u", "t", "o">>

HasAttr(el, a) == \E p \in el.attrs : p[1] = a

\* C5: the record of every <img> of the scope root has the fields src, alt,
\* width and height, and its width (height) is "auto" when the element has
\* no width (height) attribute.
C5_ImageRecordFields ==
    pc = "analyze_returned" =>
        \E r \in DOMAIN soup.doc :
            /\ IsScopeRoot(soup.doc, r)
            /\ LET I == Sources(soup.doc, r, CategoryTags.images)
                   images == content_brief.d.images.l
               IN
               /\ Len(images) = Cardinality(I)
               /\ \A i \in DOMAIN images :
                   /\ {"src", "alt", "width", "height"}
                          \subseteq DOMAIN images[i].d
                   /\ ~HasAttr(soup.doc[NthOf(I, i)], "width")
                          => images[i].d["width"] = Auto
                   /\ ~HasAttr(soup.doc[NthOf(I, i)], "height")
                          => images[i].d["height"] = Auto

\* C6: for every parsed document analyze_page_structure has a scope root
\* and returns a content brief of five sequences; it never raises.
C6_AnalyzeNeverRaises ==
    /\ pc # "analyze_raised"
    /\ pc = "analyze_returned" =>
           /\ content_brief.py = "dict"
           /\ \A cat \in DOMAIN CategoryTags :
                  content_brief.d[cat].py = "list"

\* C8: ctas is the entries of the <a> elements of the scope root in
\* document order, each with its text and its href ("" when absent),
\* followed by the entries of the <button> elements in document order,
\* each its text; every element has its entry.
C8_CtasLinksThenButtons ==
    pc = "analyze_returned" =>
        \E r \in DOMAIN soup.doc :
            /\ IsScopeRoot(soup.doc, r)
            /\ LET d == soup.doc
                   A == Sources(d, r, {"a"})
                   B == Sources(d, r, {"button"})
                   Href(el) == IF HasAttr(el, "href")
                               THEN (CHOOSE p \in el.attrs : p[1] = "href")[2]
                               ELSE <<>>
               IN
               content_brief.d.ctas.l =
                   [i \in 1..Cardinality(A) |->
                       PyDict(("href" :> Href(d[NthOf(A, i)]))
                              @@ ("text" :> get_text(d, NthOf(A, i))))]
                   \o [i \in 1..Cardinality(B) |->
                       PyStr(get_text(d, NthOf(B, i)))]

\* a button lies inside a link that has neither href nor text of its own,
\* and both have their entry
C8_Witness ==
    /\ pc = "analyze_returned"
    /\ \E r, i, j \in DOMAIN soup.doc :
        /\ IsScopeRoot(soup.doc, r)
        /\ InSubtree(soup.doc, r, i)
        /\ soup.doc[i].tag = "a"
        /\ ~HasAttr(soup.doc[i], "href")
        /\ soup.doc[j].tag = "button"
        /\ soup.doc[j].parent = i
        /\ Len(content_brief.d.ctas.l) = 2

====
